---- MODULE Spec2Model ----
(***************************************************************************)
(* The service worker of static/sw.js as a state machine: the CacheStorage *)
(* it keeps, the install / activate lifecycle of successive worker         *)
(* versions, and the fetch handler with its write-back.                    *)
(*                                                                         *)
(* A worker version v is the same script with CACHE_VERSION = v.  Every    *)
(* promise continuation of the script is one action; continuations of      *)
(* different events interleave freely, as on the event loop.               *)
(***************************************************************************)
EXTENDS Integers, Sequences, FiniteSets, TLC

\* ------------------------------------------------------------------ bounds
MaxVersion == 2      \* worker versions deployed one after the other
MaxEvents == 2       \* fetch events dispatched in one behaviour
MaxBody == 2         \* distinct contents the network serves for a URL

Versions == 1..MaxVersion
Events == 1..MaxEvents
Bodies == 1..MaxBody

\* --------------------------------------------------------- script constants
\* const CACHE_NAME = `quang-hugo-${CACHE_VERSION}`
CACHE_NAME(v) == <<"quang-hugo-v", v>>

STATIC_ASSETS ==
  << "/", "/offline.html", "/favicon.png", "/logo.png", "/img/avatar.jpg",
     "/img/icons/icon-192.png", "/img/icons/icon-512.png", "/manifest.json" >>

StaticSet == {STATIC_ASSETS[i] : i \in 1..Len(STATIC_ASSETS)}

OfflineUrl == "/offline.html"

\* location.origin, and the origins, methods, modes and URLs of the requests
\* the pages issue
LocationOrigin == "self"
Origins == {"self", "cdn"}
Methods == {"GET", "POST"}
Modes == {"navigate", "no-cors"}
RequestUrls == {"/", "/offline.html", "/p/post"}

\* A Request as the store keys it: its method, its origin and its path.
Req(m, o, u) == [method |-> m, origin |-> o, url |-> u]

\* new Request(url) for a path of the site: what STATIC_ASSETS.map(...) and
\* caches.match('/offline.html') make of a path
SiteRequest(u) == Req("GET", LocationOrigin, u)

StaticRequests ==
  [i \in 1..Len(STATIC_ASSETS) |-> SiteRequest(STATIC_ASSETS[i])]

\* ---------------------------------------------------------------- responses
\* A Response: the URL it was fetched from, its status, its type, its
\* Content-Type ("site": whatever the site serves) and its content.
Resp(u, s, t, c, b) ==
  [url |-> u, status |-> s, type |-> t, ctype |-> c, body |-> b]

\* where a same-origin URL may redirect to
RedirectUrl == "https://cdn/asset"

\* what fetch(request) may resolve with for a same-origin URL: the page in
\* one of its contents, a 404, or (the URL redirects to another origin) a
\* 200 of type cors
NetResponses(u) ==
  {Resp(u, 200, "basic", "site", b) : b \in Bodies}
    \cup {Resp(u, 404, "basic", "site", 0),
          Resp(RedirectUrl, 200, "cors", "site", 0)}

\* new Response('Offline', {status: 503, ... 'Content-Type': 'text/plain'})
ServiceUnavailable == Resp("", 503, "default", "text/plain", 0)

\* the value `undefined` a match resolves with when nothing matches
Undefined == Resp("", -1, "undefined", "", 0)
\* respondWith was never called: the request takes the browser's default path
NoAnswer == Resp("", -1, "none", "", 0)
\* a static asset whose fetch rejected during addAll
NetError == Resp("", -1, "error", "", 0)
\* the promise given to respondWith rejected: the page gets a network error
Rejected == Resp("", -1, "rejected", "", 0)

\* ------------------------------------------------------------ CacheStorage
\* caches is the name-to-cache map, in creation order; a cache is a list of
\* request/response pairs.

\* cache.match(key): the first pair stored under key
CacheMatch(entries, key) ==
  LET hits == SelectSeq(entries, LAMBDA e : e.key = key)
  IN IF Len(hits) = 0 THEN Undefined ELSE hits[1].resp

\* caches.match(key): the first cache, in map order, with a pair for key
CachesMatch(cs, key) ==
  LET has == SelectSeq(cs, LAMBDA c : CacheMatch(c.entries, key) # Undefined)
  IN IF Len(has) = 0 THEN Undefined ELSE CacheMatch(has[1].entries, key)

\* faulty variant: the pair is added beside the ones already stored under key
CachePut_Appends(entries, key, resp) ==
  Append(entries, [key |-> key, resp |-> resp])

\* faulty variant: a put evicts every pair the cache holds
CachePut_Evicts(entries, key, resp) == <<[key |-> key, resp |-> resp]>>

\* cache.put(key, resp): pairs stored under key are dropped, the new one added
CachePut(entries, key, resp) ==
  Append(SelectSeq(entries, LAMBDA e : e.key # key), [key |-> key, resp |-> resp])

\* the name of the cache caches.match(key) takes its answer from, <<>> when
\* no cache has a pair for key
CachesMatchName(cs, key) ==
  LET has == SelectSeq(cs, LAMBDA c : CacheMatch(c.entries, key) # Undefined)
  IN IF Len(has) = 0 THEN <<>> ELSE has[1].name

\* caches.keys()
CachesKeys(cs) == {cs[i].name : i \in 1..Len(cs)}

CachesHas(cs, name) == name \in CachesKeys(cs)

\* caches.open(name): an existing cache is returned, a missing one is created
CachesOpen(cs, name, fresh) ==
  IF CachesHas(cs, name) THEN cs
  ELSE Append(cs, [name |-> name, id |-> fresh, entries |-> <<>>])

\* the Cache object caches.open(name) resolves with, once cs holds name
HandleOf(cs, name) ==
  cs[CHOOSE i \in 1..Len(cs) : cs[i].name = name].id

\* a put through a Cache object: it lands in the map only while the object
\* is still in the map (a deleted cache lives on for its holders alone)
PutThrough(cs, id, key, resp) ==
  [i \in 1..Len(cs) |->
     IF cs[i].id = id
       THEN [cs[i] EXCEPT !.entries = CachePut(cs[i].entries, key, resp)]
       ELSE cs[i]]

\* response.ok, which addAll demands of every response
RespOk(r) == r.status >= 200 /\ r.status <= 299

RECURSIVE PutAll(_, _, _, _)
PutAll(entries, keys, resps, i) ==
  IF i > Len(keys) THEN entries
  ELSE PutAll(CachePut(entries, keys[i], resps[i]), keys, resps, i + 1)

\* cache.addAll(requests): every request is fetched; the pairs are stored in
\* one batch when every response is ok, and none is stored otherwise
AddAllFulfils(resps) == \A i \in 1..Len(resps) : RespOk(resps[i])

\* faulty variant: the batch starts at the second request
AddAll_SkipsFirst(entries, keys, resps) ==
  IF AddAllFulfils(resps) THEN PutAll(entries, keys, resps, 2) ELSE entries

\* faulty variant: every ok response is stored, the failed ones are left out
RECURSIVE AddAll_StoresOkOnes(_, _, _)
AddAll_StoresOkOnes(entries, keys, resps) ==
  IF Len(keys) = 0 THEN entries
  ELSE AddAll_StoresOkOnes(
         IF RespOk(Head(resps)) THEN CachePut(entries, Head(keys), Head(resps))
         ELSE entries,
         Tail(keys), Tail(resps))

AddAll(entries, keys, resps) ==
  IF AddAllFulfils(resps) THEN PutAll(entries, keys, resps, 1) ELSE entries

AddAllThrough(cs, id, keys, resps) ==
  [i \in 1..Len(cs) |->
     IF cs[i].id = id
       THEN [cs[i] EXCEPT !.entries = AddAll(cs[i].entries, keys, resps)]
       ELSE cs[i]]

\* caches.delete(name)
CachesDelete(cs, name) == SelectSeq(cs, LAMBDA c : c.name # name)

\* ------------------------------------------------------------------- state
VARIABLES
  caches,        \* the CacheStorage of the origin
  nextId,        \* identity of the next Cache object created
  phase,         \* version -> state of that ServiceWorker
  active,        \* the registration's active worker, 0 when there is none
  skipWaiting,   \* version -> self.skipWaiting() was called
  claimed,       \* version -> self.clients.claim() was called
  ipc,           \* install handler: "idle", "open", "addAll"
  installHandle, \* the Cache object the install handler holds
  addAllResult,  \* version -> "pending", "fulfilled", "rejected"
  installResps,  \* version -> the responses addAll stored, <<>> if none
  installFetches,\* version -> fetches install has issued per static asset
  apc,           \* activate handler: "idle", "keys", "delete"
  toDelete,      \* names whose caches.delete is still pending
  purged,        \* names a purge has deleted
  ev             \* fetch event -> its request, the handler's position, answer,
                 \* and (ctrl) the worker that controls the page a same-origin
                 \* navigation opened, 0 when the event opened none

vars == <<caches, nextId, phase, active, skipWaiting, claimed, ipc,
          installHandle, addAllResult, installResps, installFetches, apc,
          toDelete, purged, ev>>

lifecycleVars == <<phase, active, skipWaiting, claimed, ipc, installHandle,
                   addAllResult, installResps, installFetches, apc, toDelete,
                   purged>>

IdleEvent ==
  [ver |-> 0, method |-> "GET", origin |-> LocationOrigin, url |-> "/p/post",
   mode |-> "no-cors", pc |-> "idle", lookup |-> "none", net |-> "none",
   netResp |-> NoAnswer, answer |-> NoAnswer, from |-> <<>>, netReqs |-> 0,
   storeOps |-> 0, wb |-> "none", handle |-> 0, ctrl |-> 0]

Init ==
  /\ caches = <<>>
  /\ nextId = 1
  /\ phase = [v \in Versions |-> "parsed"]
  /\ active = 0
  /\ skipWaiting = [v \in Versions |-> FALSE]
  /\ claimed = [v \in Versions |-> FALSE]
  /\ ipc = "idle"
  /\ installHandle = 0
  /\ addAllResult = [v \in Versions |-> "pending"]
  /\ installResps = [v \in Versions |-> <<>>]
  /\ installFetches = [v \in Versions |-> 0]
  /\ apc = "idle"
  /\ toDelete = {}
  /\ purged = {}
  /\ ev = [h \in Events |-> IdleEvent]

\* ------------------------------------------------------------- the platform
\* A fetch event keeps its worker alive (and keeps a newer version from
\* activating) until the promise given to respondWith settles.
PendingPcs == {"match", "fetch", "offline"}
\* event.request of a dispatched event
RequestOf(h) == Req(ev[h].method, ev[h].origin, ev[h].url)

HasPendingEvents(v) == \E h \in Events : ev[h].ver = v /\ ev[h].pc \in PendingPcs

\* write-back steps still to run for a worker
FloatingWbs == {"open", "put"}
HasFloating(v) == \E h \in Events : ev[h].ver = v /\ ev[h].wb \in FloatingWbs

\* --------------------------------------------------------- install handler
\* The promise given to event.waitUntil: the .catch handler logs the
\* rejection of open / addAll and returns, so the promise fulfils either way.
InstallPromise(result) ==
  IF result = "rejected" THEN "fulfilled" ELSE result

\* the platform: a rejected install promise discards the worker
AfterInstall(promise) == IF promise = "fulfilled" THEN "installed" ELSE "redundant"

\* faulty variant: the promise chain is not handed to event.waitUntil, so
\* the install event is over when the handler returns
StartInstall_NoWaitUntil(v) ==
  /\ phase[v] = "parsed"
  /\ \A w \in Versions : w < v => phase[w] \in {"activated", "redundant"}
  /\ ipc = "idle" /\ apc = "idle"
  /\ phase' = [phase EXCEPT ![v] = "installed"]
  /\ ipc' = "open"
  /\ skipWaiting' = [skipWaiting EXCEPT ![v] = TRUE]
  /\ UNCHANGED <<caches, nextId, active, claimed, installHandle, addAllResult,
                 installResps, installFetches, apc, toDelete, purged, ev>>

\* the install event of version v is fired: caches.open is issued, the
\* promise chain is handed to waitUntil and skipWaiting() is called.
\* Versions are deployed one after the other: v is installed once its
\* predecessor has been activated.
StartInstall(v) ==
  /\ phase[v] = "parsed"
  /\ \A w \in Versions : w < v => phase[w] \in {"activated", "redundant"}
  /\ ipc = "idle" /\ apc = "idle"
  /\ phase' = [phase EXCEPT ![v] = "installing"]
  /\ ipc' = "open"
  /\ skipWaiting' = [skipWaiting EXCEPT ![v] = TRUE]
  /\ UNCHANGED <<caches, nextId, active, claimed, installHandle, addAllResult,
                 installResps, installFetches, apc, toDelete, purged, ev>>

\* caches.open(CACHE_NAME) resolves
InstallOpen(v) ==
  /\ phase[v] = "installing" /\ ipc = "open"
  /\ caches' = CachesOpen(caches, CACHE_NAME(v), nextId)
  /\ nextId' = IF CachesHas(caches, CACHE_NAME(v)) THEN nextId ELSE nextId + 1
  /\ installHandle' = HandleOf(caches', CACHE_NAME(v))
  /\ ipc' = "addAll"
  /\ UNCHANGED <<phase, active, skipWaiting, claimed, addAllResult,
                 installResps, installFetches, apc, toDelete, purged, ev>>

\* the responses of the fetches addAll issues: the site serves content b,
\* and the fetch of at most one asset fails (rejects, or answers 404)
FailedFetch(u, how) ==
  IF how = "rejects" THEN NetError ELSE Resp(u, 404, "basic", "site", 0)

InstallFetches(b, bad, how) ==
  [i \in 1..Len(STATIC_ASSETS) |->
     IF STATIC_ASSETS[i] = bad THEN FailedFetch(bad, how)
     ELSE Resp(STATIC_ASSETS[i], 200, "basic", "site", b)]

\* cache.addAll(...) settles, and with it the promise given to waitUntil
InstallAddAll(v, resps) ==
  /\ phase[v] = "installing" /\ ipc = "addAll"
  /\ caches' = AddAllThrough(caches, installHandle, StaticRequests, resps)
  /\ installFetches' = [installFetches EXCEPT ![v] = @ + 1]
  /\ addAllResult' =
       [addAllResult EXCEPT ![v] = IF AddAllFulfils(resps) THEN "fulfilled" ELSE "rejected"]
  /\ installResps' =
       [installResps EXCEPT ![v] = IF AddAllFulfils(resps) THEN resps ELSE <<>>]
  /\ phase' = [phase EXCEPT ![v] = AfterInstall(InstallPromise(addAllResult'[v]))]
  /\ ipc' = "idle"
  /\ UNCHANGED <<nextId, active, skipWaiting, claimed, installHandle, apc,
                 toDelete, purged, ev>>

\* -------------------------------------------------------- activate handler
\* self.clients.claim(): every open page of the scope is controlled by v
Claim(e, v) ==
  [h \in DOMAIN e |-> IF e[h].ctrl # 0 THEN [e[h] EXCEPT !.ctrl = v] ELSE e[h]]

\* faulty variant: the worker takes over none of the open pages
Activate_LeavesOpenPages(v) ==
  /\ phase[v] = "installed" /\ skipWaiting[v]
  /\ active = 0 \/ ~HasPendingEvents(active)
  /\ phase' = [w \in Versions |->
                 IF w = v THEN "activating"
                 ELSE IF w = active THEN "redundant" ELSE phase[w]]
  /\ active' = v
  /\ apc' = "keys"
  /\ claimed' = [claimed EXCEPT ![v] = TRUE]
  /\ UNCHANGED <<caches, nextId, skipWaiting, ipc, installHandle, addAllResult,
                 installResps, installFetches, toDelete, purged, ev>>

\* The platform activates an installed worker that asked to skip waiting as
\* soon as the active worker has no pending event, whatever pages are open.
\* The activate handler issues caches.keys() under waitUntil and then calls
\* clients.claim().
Activate(v) ==
  /\ phase[v] = "installed" /\ skipWaiting[v]
  /\ active = 0 \/ ~HasPendingEvents(active)
  /\ phase' = [w \in Versions |->
                 IF w = v THEN "activating"
                 ELSE IF w = active THEN "redundant" ELSE phase[w]]
  /\ active' = v
  /\ apc' = "keys"
  /\ claimed' = [claimed EXCEPT ![v] = TRUE]
  /\ ev' = Claim(ev, v)
  /\ UNCHANGED <<caches, nextId, skipWaiting, ipc, installHandle, addAllResult,
                 installResps, installFetches, toDelete, purged>>

\* faulty variant: the comparison with CACHE_NAME is missing
StaleNames_All(names, v) == names

\* cacheNames.map(...): the names caches.delete is called for
StaleNames(names, v) == {n \in names : n # CACHE_NAME(v)}

\* caches.keys() resolves; a delete is issued for every stale name
PurgeKeys(v) ==
  /\ phase[v] = "activating" /\ apc = "keys"
  /\ toDelete' = StaleNames(CachesKeys(caches), v)
  /\ apc' = "delete"
  /\ UNCHANGED <<caches, nextId, phase, active, skipWaiting, claimed, ipc,
                 installHandle, addAllResult, installResps, installFetches, purged, ev>>

\* one caches.delete(cacheName) lands
PurgeDelete(v, n) ==
  /\ phase[v] = "activating" /\ apc = "delete"
  /\ n \in toDelete
  /\ caches' = CachesDelete(caches, n)
  /\ toDelete' = toDelete \ {n}
  /\ purged' = purged \cup {n}
  /\ UNCHANGED <<nextId, phase, active, skipWaiting, claimed, ipc,
                 installHandle, addAllResult, installResps, installFetches, apc, ev>>

\* Promise.all resolves: the activate event is over, the worker is activated
ActivateDone(v) ==
  /\ phase[v] = "activating" /\ apc = "delete" /\ toDelete = {}
  /\ phase' = [phase EXCEPT ![v] = "activated"]
  /\ apc' = "idle"
  /\ UNCHANGED <<caches, nextId, active, skipWaiting, claimed, ipc,
                 installHandle, addAllResult, installResps, installFetches, toDelete, purged, ev>>

\* ----------------------------------------------------------- fetch handler
\* faulty variant: the origin guard is missing
Skipped_MethodOnly(method, origin) == method # "GET"

\* the two guards that leave a request to the browser
Skipped(method, origin) == method # "GET" \/ origin # LocationOrigin

\* the page a request opens: a navigation to the site opens one, which the
\* active worker controls
OpensPage(o, md) == o = LocationOrigin /\ md = "navigate"

\* A fetch event reaches the activated worker and the handler runs up to
\* event.respondWith(caches.match(request)...), or returns before it.
\* Events take the slots in order.
Dispatch(h, m, o, u, md) ==
  /\ ev[h].pc = "idle"
  /\ \A g \in Events : g < h => ev[g].pc # "idle"
  /\ active # 0 /\ phase[active] = "activated"
  /\ ev' = [ev EXCEPT ![h] =
       [@ EXCEPT !.ver = active, !.method = m, !.origin = o, !.url = u,
                 !.mode = md,
                 !.ctrl = IF OpensPage(o, md) THEN active ELSE 0,
                 !.pc = IF Skipped(m, o) THEN "passthrough" ELSE "match"]]
  /\ UNCHANGED <<caches, nextId, lifecycleVars>>

\* faulty variant: the status is not looked at
Eligible_TypeOnly(r) == r.type = "basic"

\* faulty variant: the type is not looked at
Eligible_StatusOnly(r) == r.status = 200

\* what the handler does with the response of fetch(request)
Eligible(r) == r.status = 200 /\ r.type = "basic"

\* faulty variant: network first: fetch(request) is issued whatever match found
Match_NetworkFirst(h) ==
  /\ ev[h].pc = "match"
  /\ LET cached == CachesMatch(caches, RequestOf(h)) IN
     ev' = [ev EXCEPT ![h] =
       [@ EXCEPT !.pc = "fetch", !.net = "pending", !.netReqs = @ + 1,
                 !.lookup = IF cached # Undefined THEN "hit" ELSE "miss",
                 !.storeOps = @ + 1]]
  /\ UNCHANGED <<caches, nextId, lifecycleVars>>

\* caches.match(request) resolves: a stored response is returned, and on a
\* miss fetch(request) is issued
Match(h) ==
  /\ ev[h].pc = "match"
  /\ LET cached == CachesMatch(caches, RequestOf(h)) IN
     ev' = [ev EXCEPT ![h] =
       IF cached # Undefined
         THEN [@ EXCEPT !.pc = "done", !.lookup = "hit", !.answer = cached,
                        !.from = CachesMatchName(caches, RequestOf(h)),
                        !.storeOps = @ + 1]
         ELSE [@ EXCEPT !.pc = "fetch", !.lookup = "miss", !.net = "pending",
                        !.netReqs = @ + 1, !.storeOps = @ + 1]]
  /\ UNCHANGED <<caches, nextId, lifecycleVars>>

\* caches.match(request) rejects (the storage is unavailable): the chain
\* given to respondWith has no rejection handler, so it rejects
MatchFails(h) ==
  /\ ev[h].pc = "match"
  /\ ev' = [ev EXCEPT ![h] =
       [@ EXCEPT !.pc = "done", !.lookup = "failed", !.answer = Rejected,
                 !.storeOps = @ + 1]]
  /\ UNCHANGED <<caches, nextId, lifecycleVars>>

\* faulty variant: a response that is not cached is not returned either
NetworkResponse_HidesIneligible(h, r) ==
  /\ ev[h].pc = "fetch"
  /\ r \in NetResponses(ev[h].url)
  /\ ev' = [ev EXCEPT ![h] =
       [@ EXCEPT !.pc = "done", !.net = "ok", !.netResp = r,
                 !.answer = IF Eligible(r) THEN r ELSE ServiceUnavailable,
                 !.wb = IF Eligible(r) THEN "open" ELSE "none"]]
  /\ UNCHANGED <<caches, nextId, lifecycleVars>>

\* fetch(request) resolves with r: r is returned, and an eligible r is
\* cloned and caches.open(CACHE_NAME) issued for the write-back, which
\* nothing awaits
NetworkResponse(h, r) ==
  /\ ev[h].pc = "fetch"
  /\ r \in NetResponses(ev[h].url)
  /\ ev' = [ev EXCEPT ![h] =
       [@ EXCEPT !.pc = "done", !.net = "ok", !.netResp = r, !.answer = r,
                 !.wb = IF Eligible(r) THEN "open" ELSE "none"]]
  /\ UNCHANGED <<caches, nextId, lifecycleVars>>

\* faulty variant: the catch handler does not look at request.mode
NetworkFailure_AlwaysOffline(h) ==
  /\ ev[h].pc = "fetch"
  /\ ev' = [ev EXCEPT ![h] = [@ EXCEPT !.pc = "offline", !.net = "failed"]]
  /\ UNCHANGED <<caches, nextId, lifecycleVars>>

\* faulty variant: a rejected fetch(request) is issued once more
NetworkFailure_Retries(h) ==
  /\ ev[h].pc = "fetch"
  /\ ev' = [ev EXCEPT ![h] =
       IF ev[h].netReqs < 2
         THEN [@ EXCEPT !.netReqs = @ + 1]
         ELSE [@ EXCEPT !.pc = "done", !.net = "failed",
                        !.answer = ServiceUnavailable]]
  /\ UNCHANGED <<caches, nextId, lifecycleVars>>

\* fetch(request) rejects: a navigation asks the store for the offline
\* page, any other request is answered 503
NetworkFailure(h) ==
  /\ ev[h].pc = "fetch"
  /\ ev' = [ev EXCEPT ![h] =
       IF ev[h].mode = "navigate"
         THEN [@ EXCEPT !.pc = "offline", !.net = "failed"]
         ELSE [@ EXCEPT !.pc = "done", !.net = "failed",
                        !.answer = ServiceUnavailable]]
  /\ UNCHANGED <<caches, nextId, lifecycleVars>>

\* caches.match('/offline.html') resolves, with the page or with undefined
OfflineMatch(h) ==
  /\ ev[h].pc = "offline"
  /\ ev' = [ev EXCEPT ![h] =
       [@ EXCEPT !.pc = "done",
                 !.answer = CachesMatch(caches, SiteRequest(OfflineUrl)),
                 !.from = CachesMatchName(caches, SiteRequest(OfflineUrl)),
                 !.storeOps = @ + 1]]
  /\ UNCHANGED <<caches, nextId, lifecycleVars>>

\* caches.match('/offline.html') rejects, and the chain with it
OfflineMatchFails(h) ==
  /\ ev[h].pc = "offline"
  /\ ev' = [ev EXCEPT ![h] =
       [@ EXCEPT !.pc = "done", !.answer = Rejected, !.storeOps = @ + 1]]
  /\ UNCHANGED <<caches, nextId, lifecycleVars>>

\* faulty variant: the write-back chain is returned, so its rejection
\* becomes the answer
AfterWriteBackFailure_Propagates(answer) == Rejected

\* The write-back chain is neither returned nor awaited: its rejection is
\* an unhandled rejection and the answer stays what the handler returned.
AfterWriteBackFailure(answer) == answer

\* write-back: caches.open(CACHE_NAME) rejects; nothing is stored
WbOpenFails(h) ==
  /\ ev[h].wb = "open"
  /\ ev' = [ev EXCEPT ![h] =
       [@ EXCEPT !.wb = "failed", !.answer = AfterWriteBackFailure(@),
                 !.storeOps = @ + 1]]
  /\ UNCHANGED <<caches, nextId, lifecycleVars>>

\* write-back: cache.put(request, responseToCache) rejects (quota exceeded);
\* nothing is stored
WbPutFails(h) ==
  /\ ev[h].wb = "put"
  /\ ev' = [ev EXCEPT ![h] =
       [@ EXCEPT !.wb = "failed", !.answer = AfterWriteBackFailure(@),
                 !.storeOps = @ + 1]]
  /\ UNCHANGED <<caches, nextId, lifecycleVars>>

\* write-back: caches.open(CACHE_NAME) resolves
WbOpen(h) ==
  /\ ev[h].wb = "open"
  /\ caches' = CachesOpen(caches, CACHE_NAME(ev[h].ver), nextId)
  /\ nextId' = IF CachesHas(caches, CACHE_NAME(ev[h].ver)) THEN nextId ELSE nextId + 1
  /\ ev' = [ev EXCEPT ![h] =
       [@ EXCEPT !.wb = "put", !.handle = HandleOf(caches', CACHE_NAME(ev[h].ver)),
                 !.storeOps = @ + 1]]
  /\ UNCHANGED lifecycleVars

\* write-back: cache.put(request, responseToCache) lands
WbPut(h) ==
  /\ ev[h].wb = "put"
  /\ caches' = PutThrough(caches, ev[h].handle, RequestOf(h), ev[h].netResp)
  /\ ev' = [ev EXCEPT ![h] = [@ EXCEPT !.wb = "done", !.storeOps = @ + 1]]
  /\ UNCHANGED <<nextId, lifecycleVars>>

\* The browser stops a worker that has no pending event; the steps of its
\* write-backs that have not run yet never run.
Terminate(v) ==
  /\ phase[v] \in {"activated", "redundant"}
  /\ ~HasPendingEvents(v)
  /\ HasFloating(v)
  /\ ev' = [h \in Events |->
       IF ev[h].ver = v /\ ev[h].wb \in FloatingWbs
         THEN [ev[h] EXCEPT !.wb = "abandoned"] ELSE ev[h]]
  /\ UNCHANGED <<caches, nextId, lifecycleVars>>

\* ----------------------------------------------------------- specification
InstallInputs ==
  {InstallFetches(b, bad, how) :
     b \in Bodies, bad \in StaticSet \cup {"none"}, how \in {"rejects", "404"}}

NetInputs == UNION {NetResponses(u) : u \in RequestUrls}

Next ==
  \/ \E v \in Versions : StartInstall(v)
  \/ \E v \in Versions : InstallOpen(v)
  \/ \E v \in Versions, resps \in InstallInputs : InstallAddAll(v, resps)
  \/ \E v \in Versions : Activate(v)
  \/ \E v \in Versions : PurgeKeys(v)
  \/ \E v \in Versions, w \in Versions : PurgeDelete(v, CACHE_NAME(w))
  \/ \E v \in Versions : ActivateDone(v)
  \/ \E h \in Events, m \in Methods, o \in Origins, u \in RequestUrls, md \in Modes :
       Dispatch(h, m, o, u, md)
  \/ \E h \in Events : Match(h)
  \/ \E h \in Events : MatchFails(h)
  \/ \E h \in Events, r \in NetInputs : NetworkResponse(h, r)
  \/ \E h \in Events : NetworkFailure(h)
  \/ \E h \in Events : OfflineMatch(h)
  \/ \E h \in Events : OfflineMatchFails(h)
  \/ \E h \in Events : WbOpen(h)
  \/ \E h \in Events : WbPut(h)
  \/ \E h \in Events : WbOpenFails(h)
  \/ \E h \in Events : WbPutFails(h)
  \/ \E v \in Versions : Terminate(v)

Spec == Init /\ [][Next]_vars

\* ================================================================== claims
Intercepted(h) == ev[h].pc # "idle" /\ ~Skipped(ev[h].method, ev[h].origin)

\* the handler of h has produced its answer after a miss and a failed fetch
FailedAfterMiss(h) ==
  /\ Intercepted(h) /\ ev[h].pc = "done"
  /\ ev[h].lookup = "miss" /\ ev[h].net = "failed"

\* the entries of the cache called name, <<>> when there is none
NsEntries(cs, name) ==
  IF CachesHas(cs, name)
    THEN cs[CHOOSE i \in 1..Len(cs) : cs[i].name = name].entries
    ELSE <<>>

\* the responses stored under key, in any cache
StoredUnder(cs, key) ==
  UNION {{cs[i].entries[j].resp :
            j \in {k \in 1..Len(cs[i].entries) : cs[i].entries[k].key = key}} :
         i \in 1..Len(cs)}

\* C1: a navigation that misses the store and fails on the network is
\* answered with the offline document, with a success status.
C1_NavigationFailureGetsOfflinePage ==
  \A h \in Events :
    FailedAfterMiss(h) /\ ev[h].mode = "navigate"
      => ev[h].answer.url = OfflineUrl /\ ev[h].answer.status = 200

\* C2: a request that is no navigation, misses the store and fails on the
\* network is answered with the synthetic 503 text/plain response, never
\* with the offline document.
C2_SubresourceFailureGets503 ==
  \A h \in Events :
    FailedAfterMiss(h) /\ ev[h].mode # "navigate"
      => /\ ev[h].answer.status = 503
         /\ ev[h].answer.ctype = "text/plain"
         /\ ev[h].answer = ServiceUnavailable
         /\ ev[h].answer.url # OfflineUrl
         /\ ev[h].answer \notin StoredUnder(caches, SiteRequest(OfflineUrl))

C2_Witness ==
  \E h \in Events :
    /\ FailedAfterMiss(h) /\ ev[h].mode # "navigate"
    /\ ev[h].answer.status = 503
    /\ StoredUnder(caches, SiteRequest(OfflineUrl)) # {}

C4_SkippedRequestsPassThrough ==
  \A h \in Events :
    ev[h].pc # "idle" /\ (ev[h].method # "GET" \/ ev[h].origin # LocationOrigin)
      => /\ ev[h].pc = "passthrough"
         /\ ev[h].answer = NoAnswer
         /\ ev[h].storeOps = 0 /\ ev[h].netReqs = 0
         /\ ev[h].wb = "none" /\ ev[h].lookup = "none"

C4_Witness ==
  \E g, h \in Events :
    /\ ev[g].pc = "passthrough" /\ ev[g].method = "POST" /\ ev[g].origin = LocationOrigin
    /\ ev[h].pc = "passthrough" /\ ev[h].method = "GET" /\ ev[h].origin # LocationOrigin
    /\ StoredUnder(caches, SiteRequest(ev[h].url)) # {}

\* the newest worker version: no later version has been deployed
Newest(v) == \A w \in Versions : w > v => phase[w] = "parsed"

\* C5: once the activation of a version that followed another one has
\* completed, the only namespace is that version's.
C5_OnlyCurrentNamespaceAfterActivation ==
  \A v \in Versions :
    v > 1 /\ phase[v] = "activated" /\ Newest(v)
      => CachesKeys(caches) = {CACHE_NAME(v)}

\* C6: a version whose install saw a static asset fail never becomes the
\* activating or active worker.
C6_FailedInstallNeverActivates ==
  \A v \in Versions :
    addAllResult[v] = "rejected"
      => phase[v] \notin {"activating", "activated"} /\ active # v

\* the response install stored under the static asset u for version v
InstalledResp(v, u) ==
  installResps[v][CHOOSE i \in 1..Len(STATIC_ASSETS) : STATIC_ASSETS[i] = u]

\* C7: a lookup of a static asset by a worker whose install stored it, in a
\* namespace no purge has deleted, returns (when the store answers it) the
\* response install stored.
C7_InstallRoundTrip ==
  [][\A h \in Events :
       ev[h].pc = "match" /\ ev'[h].pc # "match" /\ ev'[h].lookup # "failed"
       /\ ev[h].url \in StaticSet
       /\ addAllResult[ev[h].ver] = "fulfilled"
       /\ CACHE_NAME(ev[h].ver) \notin purged
        => /\ ev'[h].lookup = "hit"
           /\ ev'[h].answer = InstalledResp(ev[h].ver, ev[h].url)
           /\ CacheMatch(NsEntries(caches, CACHE_NAME(ev[h].ver)), RequestOf(h))
                = InstalledResp(ev[h].ver, ev[h].url)]_vars

C7_Witness ==
  \E h \in Events :
    /\ ev[h].lookup = "hit" /\ ev[h].url = "/"
    /\ addAllResult[ev[h].ver] = "fulfilled"
    /\ ev[h].answer = InstalledResp(ev[h].ver, "/")
    /\ ev[h].answer.body = MaxBody

Count(entries, key) == Len(SelectSeq(entries, LAMBDA e : e.key = key))

\* the events whose write-back put has landed in Cache object id under u
Writers(id, u) ==
  {h \in Events : ev[h].wb = "done" /\ ev[h].handle = id /\ ev[h].url = u}

\* C8: no cache ever holds two entries for a key; and once the write-backs
\* of two (or more) events that missed the same key have landed in a cache,
\* it holds exactly one entry for the key, the response of one of them.
C8_ConcurrentWriteBacksLeaveOneEntry ==
  \A i \in 1..Len(caches) : \A u \in RequestUrls \cup StaticSet :
    /\ Count(caches[i].entries, SiteRequest(u)) <= 1
    /\ Cardinality(Writers(caches[i].id, u)) >= 2
         => /\ Count(caches[i].entries, SiteRequest(u)) = 1
            /\ CacheMatch(caches[i].entries, SiteRequest(u))
                 \in {ev[h].netResp : h \in Writers(caches[i].id, u)}

C8_Witness ==
  \E i \in 1..Len(caches) : \E g, h \in Events :
    /\ g # h /\ {g, h} \subseteq Writers(caches[i].id, "/p/post")
    /\ ev[g].ver = ev[h].ver /\ ev[g].lookup = "miss" /\ ev[h].lookup = "miss"
    /\ ev[g].netResp # ev[h].netResp
    /\ CacheMatch(caches[i].entries, SiteRequest("/p/post")) = ev[h].netResp
    /\ Count(caches[i].entries, SiteRequest("/p/post")) = 1

\* C9: the first version, installed with every static asset fetched, holds
\* exactly one entry per listed URL when install is over, and once it is
\* activated its namespace is the only one.
C9_FirstInstallPopulatesOneNamespace ==
  addAllResult[1] = "fulfilled" =>
    /\ phase[1] \in {"installed", "activating"} =>
         LET es == NsEntries(caches, CACHE_NAME(1)) IN
           /\ Len(es) = Len(STATIC_ASSETS)
           /\ \A u \in StaticSet :
                /\ Count(es, SiteRequest(u)) = 1
                /\ CacheMatch(es, SiteRequest(u)) = InstalledResp(1, u)
           /\ CacheMatch(es, SiteRequest(OfflineUrl)).url = OfflineUrl
    /\ phase[1] = "activated" /\ Newest(1) =>
         CachesKeys(caches) = {CACHE_NAME(1)}

C9_Witness ==
  /\ addAllResult[1] = "fulfilled" /\ phase[1] = "activated" /\ Newest(1)
  /\ CachesKeys(caches) = {CACHE_NAME(1)}
  /\ Len(NsEntries(caches, CACHE_NAME(1))) = Len(STATIC_ASSETS)

\* C10: the write-back of an eligible network response that was answered
\* to the caller is never abandoned: it is pending, has landed, or was
\* refused by the store.
C10_WriteBackNeverAbandoned ==
  \A h \in Events :
    ev[h].pc = "done" /\ ev[h].net = "ok" /\ Eligible(ev[h].netResp)
      => ev[h].answer = ev[h].netResp
         /\ ev[h].wb \in {"open", "put", "done", "failed"}

\* every response stored in any cache
AllStored(cs) ==
  UNION {{cs[i].entries[j].resp : j \in 1..Len(cs[i].entries)} : i \in 1..Len(cs)}

\* every key stored in any cache
AllKeys(cs) ==
  UNION {{cs[i].entries[j].key : j \in 1..Len(cs[i].entries)} : i \in 1..Len(cs)}

C12_DynamicContentIsNetworkFirst ==
  \A h \in Events :
    ( /\ Intercepted(h) /\ ev[h].pc = "done" /\ ev[h].url \notin StaticSet
      /\ ev[h].lookup # "failed" )
      => /\ ev[h].netReqs >= 1
         /\ ev[h].lookup = "hit" => ev[h].net = "failed"

C14_PurgeCompletesBeforeClaim ==
  \A v \in Versions :
    claimed[v] /\ phase[v] = "activating"
      => /\ toDelete = {}
         /\ apc = "keys" => StaleNames(CachesKeys(caches), v) = {}

\* C15: a version whose install chain (open, addAll) has not settled is
\* neither activating nor active, although it has asked to skip waiting.
C15_InstallSettlesBeforeActivation ==
  \A v \in Versions :
    /\ addAllResult[v] = "pending" => phase[v] \in {"parsed", "installing"}
    /\ phase[v] \in {"parsed", "installing"} => active # v /\ ~claimed[v]
    /\ phase[v] = "installing" => skipWaiting[v]

C15_Witness ==
  \E v \in Versions :
    /\ v > 1 /\ phase[v] = "installing" /\ ipc = "addAll" /\ skipWaiting[v]
    /\ active = v - 1 /\ ~HasPendingEvents(active)

\* C16: a store lookup that fails is handled as a miss: the network request
\* is issued, and the caller is never answered with a rejection.
C16_StoreReadFailureIsAMiss ==
  \A h \in Events :
    ev[h].lookup = "failed"
      => /\ ev[h].netReqs = 1
         /\ ev[h].answer # Rejected

\* C17: the step in which a write-back fails (open or put) leaves every
\* namespace as it was, and the answer is, and stays, the network response.
C17_WriteBackFailureSkipsCaching ==
  [][\A h \in Events :
       ev[h].wb \in FloatingWbs /\ ev'[h].wb = "failed"
         => /\ caches' = caches
            /\ ev'[h].pc = "done"
            /\ ev'[h].answer = ev[h].netResp
            /\ ev'[h].netResp = ev[h].netResp /\ Eligible(ev[h].netResp)]_vars

C17_Witness ==
  \E g, h \in Events :
    /\ ev[g].wb = "failed" /\ ev[g].handle = 0
    /\ ev[h].wb = "failed" /\ ev[h].handle # 0
    /\ ev[h].url = "/p/post" /\ ev[h].answer = ev[h].netResp
    /\ ev[h].answer.status = 200
    /\ SiteRequest("/p/post") \notin AllKeys(caches)
    /\ AllStored(caches) # {}

\* C18: an answer taken from the store (for the request, or the offline
\* page) comes from the namespace of the version that handles the event.
C18_AnsweredFromCurrentNamespaceOnly ==
  \A h \in Events :
    ev[h].from # <<>> => ev[h].from = CACHE_NAME(ev[h].ver)

\* the offline document: the page served under '/offline.html'
OfflineDocument(r) == r.url = OfflineUrl /\ r.status = 200

\* C19 as stated: the offline document is an answer only of a navigation
\* whose network request failed.
C19_OfflineDocumentOnlyOnNavigationFailure ==
  \A h \in Events :
    ev[h].pc = "done" /\ OfflineDocument(ev[h].answer)
      => ev[h].mode = "navigate" /\ ev[h].net = "failed"

\* C19 amended: the offline document is the answer only of a navigation
\* whose network request failed, or of a request for '/offline.html'
\* itself, which is served like any other static asset.
C19_OfflineDocumentOnFailureOrOwnUrl ==
  \A h \in Events :
    ev[h].pc = "done" /\ OfflineDocument(ev[h].answer)
      => \/ ev[h].mode = "navigate" /\ ev[h].net = "failed"
         \/ ev[h].url = OfflineUrl /\ ev[h].net # "failed"

C19_Witness ==
  \E g, h \in Events :
    /\ ev[g].pc = "done" /\ ev[g].url = "/p/post" /\ ev[g].mode = "navigate"
    /\ ev[g].net = "failed" /\ OfflineDocument(ev[g].answer)
    /\ ev[h].pc = "done" /\ ev[h].url = OfflineUrl /\ ev[h].mode = "no-cors"
    /\ ev[h].lookup = "hit" /\ OfflineDocument(ev[h].answer)

\* C20: an event issues at most one network request, exactly one once its
\* fetch has been issued, and an install fetches each static asset at most
\* once, whether the fetch succeeded or failed.
C20_NothingIsRetried ==
  /\ \A h \in Events :
       /\ ev[h].netReqs <= 1
       /\ ev[h].net # "none" => ev[h].netReqs = 1
  /\ \A v \in Versions :
       /\ installFetches[v] <= 1
       /\ addAllResult[v] # "pending" => installFetches[v] = 1

C20_Witness ==
  \E g, h \in Events : \E v \in Versions :
    /\ g # h
    /\ ev[g].pc = "done" /\ ev[g].net = "failed" /\ ev[g].mode = "navigate"
    /\ ev[h].pc = "done" /\ ev[h].net = "failed" /\ ev[h].mode = "no-cors"
    /\ ev[g].netReqs = 1 /\ ev[h].netReqs = 1
    /\ addAllResult[v] = "rejected" /\ installFetches[v] = 1

\* the pages still open that were opened while version v was the active worker
PagesOpenedUnder(v) == {h \in Events : ev[h].ctrl # 0 /\ ev[h].ver = v}

\* C21: an installed version has asked to skip waiting and can be activated
\* as soon as the active worker has no event in flight, whatever pages are
\* open; and every open page is controlled by the active worker, also the
\* pages opened under its predecessor.
C21_NewVersionTakesOverOpenPages ==
  /\ \A v \in Versions :
       phase[v] = "installed"
         => /\ skipWaiting[v]
            /\ (active = 0 \/ ~HasPendingEvents(active)) => ENABLED Activate(v)
  /\ \A h \in Events : ev[h].ctrl # 0 => ev[h].ctrl = active

C21_Witness ==
  \E v \in Versions : \E h \in PagesOpenedUnder(v) :
    /\ ev[h].mode = "navigate" /\ ev[h].pc = "done"
    /\ active = v + 1 /\ phase[active] = "activating" /\ apc = "keys"
    /\ ev[h].ctrl = active

\* C22: a namespace an activation purge has deleted is not in the store
\* again later.
C22_PurgedNamespaceStaysDeleted ==
  \A n \in purged : ~CachesHas(caches, n)

\* an answer the page can use: a Response
DefinedAnswer(r) == r \notin {Undefined, Rejected, NoAnswer}

\* C23, for events whose store lookups were all answered: the answer of an
\* intercepted event is a Response (a stored entry, the network response,
\* the offline document or the 503), never an absent value.
C23_AnswerIsAlwaysDefined ==
  \A h \in Events :
    ( /\ Intercepted(h) /\ ev[h].pc = "done"
      /\ ev[h].lookup # "failed" /\ ev[h].answer # Rejected )
      => /\ DefinedAnswer(ev[h].answer)
         /\ ev[h].answer.status \in {200, 404, 503}

\* the keys of a list of pairs
KeysOf(entries) == {entries[j].key : j \in 1..Len(entries)}

\* C24: in every step, a namespace that stays in the store keeps an entry
\* for each key it had, and a namespace leaves the store only in a step
\* of an activation purge that deletes it.
C24_EntriesDestroyedOnlyByNamespaceDeletion ==
  [][\A i \in 1..Len(caches) :
       IF \E j \in 1..Len(caches') : caches'[j].id = caches[i].id
         THEN /\ KeysOf(caches[i].entries)
                   \subseteq KeysOf(NsEntries(caches', caches[i].name))
              /\ HandleOf(caches', caches[i].name) = caches[i].id
         ELSE /\ apc = "delete" /\ caches[i].name \in toDelete
              /\ caches[i].name \in purged' \ toDelete'
              /\ ~CachesHas(caches', caches[i].name)]_vars

C24_Witness ==
  \E g, h \in Events :
    /\ g # h /\ ev[g].url = ev[h].url /\ ev[g].url \notin StaticSet
    /\ ev[g].wb = "done" /\ ev[h].wb = "done" /\ ev[g].handle = ev[h].handle
    /\ ev[g].ver = 2 /\ CACHE_NAME(1) \in purged
    /\ KeysOf(NsEntries(caches, CACHE_NAME(2)))
         = {SiteRequest(u) : u \in StaticSet \cup {ev[g].url}}
    /\ CachesKeys(caches) = {CACHE_NAME(2)}

\* the outcome of event h is a miss followed by a network response with a
\* success status and type basic
MissThenEligible(h) ==
  /\ Intercepted(h) /\ ev[h].pc = "done" /\ ev[h].lookup = "miss"
  /\ ev[h].net = "ok" /\ ev[h].netResp.status = 200 /\ ev[h].netResp.type = "basic"

\* C25: a step of a fetch handler that changes the store is a write-back
\* step of an event that missed and got an eligible network response; an
\* event with any other outcome has no write-back and has only read the
\* store.
C25_OnlyEligibleMissChangesStore ==
  [][/\ caches' # caches /\ ev' # ev
        => \E h \in Events :
             /\ ev'[h] # ev[h] /\ \A g \in Events \ {h} : ev'[g] = ev[g]
             /\ MissThenEligible(h) /\ ev[h].wb \in FloatingWbs
     /\ \A h \in Events :
          ev'[h].pc \in {"done", "passthrough"} /\ ~MissThenEligible(h)'
            => /\ ev'[h].wb = "none" /\ ev'[h].handle = 0
               /\ ev'[h] # ev[h] => caches' = caches]_vars

C25_Witness ==
  \E g, h \in Events :
    /\ ev[g].pc = "done" /\ ev[g].lookup = "hit" /\ ev[g].ver = ev[h].ver
    /\ ev[g].url = ev[h].url
    /\ MissThenEligible(h) /\ ev[h].wb = "done"
    /\ ev[g].answer = ev[h].netResp
    /\ CacheMatch(NsEntries(caches, CACHE_NAME(ev[h].ver)), RequestOf(h)) = ev[h].netResp

\* C26: a purge never has the activating version's namespace among the
\* names to delete, and a step that deletes a namespace leaves the
\* activating version's namespace in the store, the same Cache object with
\* the same entries in the same order.
C26_PurgeLeavesCurrentNamespace ==
  [][\A v \in Versions :
       phase[v] = "activating"
         => /\ CACHE_NAME(v) \notin toDelete' /\ CACHE_NAME(v) \notin purged'
            /\ purged' # purged
                 => /\ CachesHas(caches, CACHE_NAME(v))
                    /\ CachesHas(caches', CACHE_NAME(v))
                    /\ HandleOf(caches', CACHE_NAME(v)) = HandleOf(caches, CACHE_NAME(v))
                    /\ NsEntries(caches', CACHE_NAME(v)) = NsEntries(caches, CACHE_NAME(v))]_vars

C26_Witness ==
  \E v \in Versions :
    /\ phase[v] = "activating" /\ apc = "delete" /\ toDelete = {}
    /\ purged = {CACHE_NAME(v - 1)}
    /\ CachesKeys(caches) = {CACHE_NAME(v)}
    /\ addAllResult[v] = "fulfilled"
    /\ \A u \in StaticSet :
         CacheMatch(NsEntries(caches, CACHE_NAME(v)), SiteRequest(u)) = InstalledResp(v, u)

\* C27: the step in which the install of v settles leaves in the namespace
\* of v an entry for every static asset, holding the response this install
\* fetched, or leaves the namespace as it was: the namespace then holds
\* all the assets or nothing.
C27_InstallIsAllOrNothing ==
  [][\A v \in Versions :
       addAllResult[v] = "pending" /\ addAllResult'[v] # "pending"
         => LET before == NsEntries(caches, CACHE_NAME(v))
                after == NsEntries(caches', CACHE_NAME(v))
            IN /\ \/ /\ addAllResult'[v] = "fulfilled"
                     /\ KeysOf(after) = {SiteRequest(u) : u \in StaticSet}
                     /\ \A u \in StaticSet :
                          CacheMatch(after, SiteRequest(u)) = InstalledResp(v, u)'
                  \/ /\ addAllResult'[v] = "rejected"
                     /\ after = before
               /\ Len(after) \in {0, Len(STATIC_ASSETS)}]_vars

C27_Witness ==
  /\ addAllResult[1] = "fulfilled" /\ addAllResult[2] = "rejected"
  /\ phase[2] = "installed"
  /\ Len(NsEntries(caches, CACHE_NAME(1))) >= Len(STATIC_ASSETS)
  /\ CachesHas(caches, CACHE_NAME(2)) /\ NsEntries(caches, CACHE_NAME(2)) = <<>>

\* C28: from the step in which fetch(request) resolves after a miss, the
\* answer of the event is the network response, eligible or not, and no
\* later step (of the write-back or of anything else) changes it.
C28_AnswerIsTheNetworkResponse ==
  [][\A h \in Events :
       ev'[h].lookup = "miss" /\ ev'[h].net = "ok"
         => /\ ev'[h].pc = "done"
            /\ ev'[h].answer = ev'[h].netResp
            /\ ev'[h].answer.status = ev'[h].netResp.status
            /\ ev'[h].answer.body = ev'[h].netResp.body
            /\ ev'[h].netResp \in NetResponses(ev[h].url)
            /\ ev[h].net = "ok" => ev'[h].answer = ev[h].answer]_vars

C28_Witness ==
  \E g, h \in Events :
    /\ ev[g].lookup = "miss" /\ ev[g].net = "ok" /\ ev[g].netResp.status = 404
    /\ ev[g].answer = ev[g].netResp /\ ev[g].wb = "none"
    /\ ev[h].lookup = "miss" /\ ev[h].net = "ok" /\ ev[h].netResp.body = MaxBody
    /\ ev[h].answer = ev[h].netResp /\ ev[h].wb = "open"
    /\ ev[h].url = ev[g].url /\ ev[h].ver = ev[g].ver

====
